---- MODULE Spec2Model ----
(***************************************************************************)
(* Model of custom_components/iliad_ita/sensor.py: the fetch-parse-cache   *)
(* pipeline of IliadDataCoordinator and the three sensors that read it.    *)
(*                                                                         *)
(* Text is modelled at two levels.  A page body is a sequence of markup    *)
(* elements in document order; the text inside an element (and every       *)
(* extracted value) is a sequence of one-character strings, so that the    *)
(* regular expressions, strip() and replace() are computed character by    *)
(* character.  Characters outside ASCII are named: "EURO" is U+20AC, and   *)
(* "A_CIRC", "LOW9_QUOTE", "NOT_SIGN" are U+00E2, U+201A, U+00AC.           *)
(***************************************************************************)
EXTENDS Integers, Sequences, FiniteSets, TLC

VARIABLES data, pc, html, reqs, ret, lastGood, doc, reading

vars == <<data, pc, html, reqs, ret, lastGood, doc, reading>>

coordVars == <<data, pc, html, reqs, ret, lastGood>>

parseVars == <<doc, reading>>

(***************************************************************************)
(* Bounds.                                                                 *)
(***************************************************************************)
\* Longest page body (in elements) that the parser specification enumerates.
MaxElems == 2

\* Number of overlapping callers of refresh (scheduled and on demand).
NumCallers == 2

(***************************************************************************)
(* Python values.                                                          *)
(***************************************************************************)
\* Python's None where a str is expected; no text is this sequence.
None == <<"NoneType">>

HTTP_OK == 200

Range(s) == {s[i] : i \in DOMAIN s}

Digits == {"0", "1", "2", "3", "4", "5", "6", "7", "8", "9"}

Whitespace == {" "}

\* str.upper() on the letters that occur in the modelled texts.
Upper(c) ==
    CASE c = "k" -> "K"
      [] c = "m" -> "M"
      [] c = "g" -> "G"
      [] c = "t" -> "T"
      [] c = "b" -> "B"
      [] OTHER -> c

\* str.replace(',', '.')
ReplaceComma(s) == [i \in DOMAIN s |-> IF s[i] = "," THEN "." ELSE s[i]]

\* str.strip()
RECURSIVE LStrip(_)
LStrip(s) == IF s # <<>> /\ Head(s) \in Whitespace THEN LStrip(Tail(s)) ELSE s

RECURSIVE RStrip(_)
RStrip(s) ==
    IF s # <<>> /\ s[Len(s)] \in Whitespace
    THEN RStrip(SubSeq(s, 1, Len(s) - 1))
    ELSE s

Strip(s) == RStrip(LStrip(s))

(***************************************************************************)
(* Markup elements and page bodies.                                        *)
(***************************************************************************)
Elem(t, c, m, x) == [tag |-> t, class |-> c, mask |-> m, text |-> x]

\* <b class="red" data-cs-mask>12,34(euro sign)</b>
E_BalanceEuro == Elem("b", <<"red">>, TRUE, <<"1", "2", ",", "3", "4", "EURO">>)

\* <b class="red" data-cs-mask>12,34(a-circumflex, low-9 quote, not sign)</b>
E_BalanceMoji ==
    Elem("b", <<"red">>, TRUE,
         <<"1", "2", ",", "3", "4", "A_CIRC", "LOW9_QUOTE", "NOT_SIGN">>)

\* <span class="red">5 GB</span>
E_Usage5GB == Elem("span", <<"red">>, FALSE, <<"5", " ", "G", "B">>)

\* <span class="red">10gb</span>
E_Usage10gb == Elem("span", <<"red">>, FALSE, <<"1", "0", "g", "b">>)

\* <span class="red">1,5MB</span>
E_UsageComma == Elem("span", <<"red">>, FALSE, <<"1", ",", "5", "M", "B">>)

\* <span class="big red">3,5</span>
E_BigRed == Elem("span", <<"big", "red">>, FALSE, <<"3", ",", "5">>)

\* <span class="small red"> GB </span>
E_SmallRed == Elem("span", <<"small", "red">>, FALSE, <<" ", "G", "B", " ">>)

\* <div>7 MB</div>
E_Other == Elem("div", <<>>, FALSE, <<"7", " ", "M", "B">>)

ElementPool ==
    {E_BalanceEuro, E_BalanceMoji, E_Usage5GB, E_Usage10gb, E_UsageComma,
     E_BigRed, E_SmallRed, E_Other}

\* Every page body of at most MaxElems elements.
Docs == UNION {[1..n -> ElementPool] : n \in 0..MaxElems}

\* The page bodies the account page answers with in the coordinator model;
\* <<>> is the empty body "".
Pages ==
    {<<>>,
     <<E_Other>>,
     <<E_BalanceMoji, E_UsageComma>>,
     <<E_Usage5GB, E_Usage10gb>>,
     <<E_BalanceEuro, E_BigRed, E_SmallRed>>,
     <<E_BalanceMoji, E_Usage10gb, E_BigRed, E_SmallRed>>}

(***************************************************************************)
(* parse_data: the balance regular expression.                             *)
(***************************************************************************)
\* The literal that follows the capture group in the pattern of line 91.
BalanceGlyph == <<"A_CIRC", "LOW9_QUOTE", "NOT_SIGN">>

\* [\d,.]
IsBalanceChar(c) == c \in Digits \cup {",", "."}

\* The group ([\d,.]+) of the pattern matched against one <b> element, or None.
BalanceGroup(e) ==
    LET x == e.text
        n == Len(x) - Len(BalanceGlyph)
    IN  IF /\ e.tag = "b"
           /\ e.class = <<"red">>
           /\ e.mask
           /\ n >= 1
           /\ SubSeq(x, n + 1, Len(x)) = BalanceGlyph
           /\ \A i \in 1..n : IsBalanceChar(x[i])
        THEN SubSeq(x, 1, n)
        ELSE None

\* re.search(...) over the body: the leftmost match; group(1) or None.
ExtractBalance(h) ==
    LET hits == {i \in DOMAIN h : BalanceGroup(h[i]) # None}
    IN  IF hits = {} THEN None
        ELSE BalanceGroup(h[CHOOSE i \in hits : \A j \in hits : i <= j])

(***************************************************************************)
(* parse_data: the data-usage pattern and the loop over the 'red' spans.   *)
(***************************************************************************)
\* (KB|MB|GB|TB) under re.IGNORECASE
IsUnit(a, b) == Upper(a) \in {"K", "M", "G", "T"} /\ Upper(b) = "B"

AllDigits(t, from, to) == \A j \in from..to : j \in DOMAIN t /\ t[j] \in Digits

\* The ways (\d+[\.,]?\d*)\s?(KB|MB|GB|TB) matches t starting at position i:
\* k digits, s separators, m digits, w whitespace characters, then the unit.
MatchesAt(t, i) ==
    {c \in (1..Len(t)) \X {0, 1} \X (0..Len(t)) \X {0, 1} :
        LET k == c[1]
            s == c[2]
            m == c[3]
            w == c[4]
            p == i + k + s + m + w
        IN  /\ AllDigits(t, i, i + k - 1)
            /\ s = 1 => (i + k \in DOMAIN t /\ t[i + k] \in {".", ","})
            /\ AllDigits(t, i + k + s, i + k + s + m - 1)
            /\ w = 1 => (p - 1 \in DOMAIN t /\ t[p - 1] \in Whitespace)
            /\ p + 1 \in DOMAIN t
            /\ IsUnit(t[p], t[p + 1])}

\* The order in which the backtracking matcher tries them: every quantifier
\* is greedy, so more digits, the separator, more digits, the whitespace.
Rank(t, c) == ((c[1] * 2 + c[2]) * (Len(t) + 1) + c[3]) * 2 + c[4]

NoMatch == [g1 |-> None, g2 |-> None]

\* size_pattern.search(t): groups 1 and 2 of the leftmost match, or NoMatch.
SizeSearch(t) ==
    LET starts == {i \in DOMAIN t : MatchesAt(t, i) # {}}
    IN  IF starts = {} THEN NoMatch
        ELSE LET i == CHOOSE a \in starts : \A b \in starts : a <= b
                 M == MatchesAt(t, i)
                 c == CHOOSE a \in M : \A b \in M : Rank(t, a) >= Rank(t, b)
                 n == c[1] + c[2] + c[3]
                 p == i + n + c[4]
             IN  [g1 |-> SubSeq(t, i, i + n - 1), g2 |-> SubSeq(t, p, p + 1)]

\* size_pattern, compiled once at line 95: its search result on the text of
\* every element in scope.
size_pattern == [t \in {e.text : e \in ElementPool} |-> SizeSearch(t)]

\* The class_ filter of find_all / find: a single class name matches any of
\* the element's classes, a value with a space matches the whole attribute.
ClassMatches(e, c) ==
    IF Len(c) = 1 THEN c[1] \in Range(e.class) ELSE e.class = c

\* Indices of soup.find_all('span', class_=...) in document order.
FindAll(h, c) == {i \in DOMAIN h : h[i].tag = "span" /\ ClassMatches(h[i], c)}

\* The loop of lines 98-103 stops at the last matching span instead of the
\* first (the break is missing).
ExtractUsage_NoBreak(h) ==
    LET hits == {i \in FindAll(h, <<"red">>) : size_pattern[h[i].text] # NoMatch}
    IN  IF hits = {} THEN NoMatch
        ELSE LET m == size_pattern[h[CHOOSE i \in hits : \A j \in hits : i >= j].text]
             IN  [g1 |-> ReplaceComma(m.g1), g2 |-> m.g2]

\* The loop of lines 98-103 without the replace(',', '.').
ExtractUsage_NoReplace(h) ==
    LET hits == {i \in FindAll(h, <<"red">>) : size_pattern[h[i].text] # NoMatch}
    IN  IF hits = {} THEN NoMatch
        ELSE size_pattern[h[CHOOSE i \in hits : \A j \in hits : i <= j].text]

\* Lines 96-103: data_usage (g1) and data_usage_unit (g2).
ExtractUsage(h) ==
    LET hits == {i \in FindAll(h, <<"red">>) : size_pattern[h[i].text] # NoMatch}
    IN  IF hits = {} THEN NoMatch
        ELSE LET m == size_pattern[h[CHOOSE i \in hits : \A j \in hits : i <= j].text]
             IN  [g1 |-> ReplaceComma(m.g1), g2 |-> m.g2]

\* soup.find('span', class_=c): the text of the first such span, or None.
FindText(h, c) ==
    LET hits == FindAll(h, c)
    IN  IF hits = {} THEN None
        ELSE h[CHOOSE i \in hits : \A j \in hits : i <= j].text

\* Lines 106-108.
ExtractRemaining(h) ==
    LET x == FindText(h, <<"big", "red">>)
    IN  IF x = None THEN None ELSE ReplaceComma(Strip(x))

\* Lines 107-109.
ExtractRemainingUnit(h) ==
    LET x == FindText(h, <<"small", "red">>)
    IN  IF x = None THEN None ELSE Strip(x)

Keys ==
    {"balance", "data_usage", "data_usage_unit", "remaining_data",
     "remaining_data_unit"}

\* self.data = {} of __init__.
EmptyDict == [k \in {} |-> None]

\* dict.get(k)
Get(d, k) == IF k \in DOMAIN d THEN d[k] ELSE None

\* parse_data updating the old dict key by key, keeping the old value of a
\* key whose extraction found nothing.
parse_data_Merge(h) ==
    [k \in Keys |->
        LET new == CASE k = "balance" -> ExtractBalance(h)
                     [] k = "data_usage" -> ExtractUsage(h).g1
                     [] k = "data_usage_unit" -> ExtractUsage(h).g2
                     [] k = "remaining_data" -> ExtractRemaining(h)
                     [] k = "remaining_data_unit" -> ExtractRemainingUnit(h)
        IN  IF new = None THEN Get(data, k) ELSE new]

\* The dict that parse_data assigns to self.data.
parse_data(h) ==
    [k \in Keys |->
        CASE k = "balance" -> ExtractBalance(h)
          [] k = "data_usage" -> ExtractUsage(h).g1
          [] k = "data_usage_unit" -> ExtractUsage(h).g2
          [] k = "remaining_data" -> ExtractRemaining(h)
          [] k = "remaining_data_unit" -> ExtractRemainingUnit(h)]

(***************************************************************************)
(* The parser on its own: a body is chosen, then parsed.                   *)
(***************************************************************************)
NoReading == [parsed |-> FALSE, value |-> EmptyDict]

ParseDoc ==
    /\ ~reading.parsed
    /\ reading' = [parsed |-> TRUE, value |-> parse_data(doc)]
    /\ UNCHANGED <<doc, coordVars>>
InitParse ==
    /\ data = EmptyDict
    /\ pc = [r \in 1..NumCallers |-> "idle"]
    /\ html = [r \in 1..NumCallers |-> [kind |-> "unset", text |-> <<>>]]
    /\ reqs = [r \in 1..NumCallers |-> <<>>]
    /\ ret = [r \in 1..NumCallers |-> [kind |-> "none", value |-> EmptyDict]]
    /\ lastGood = [kind |-> "none", text |-> <<>>]
    /\ doc \in Docs
    /\ reading = NoReading

NextParse == ParseDoc

SpecParse == InitParse /\ [][NextParse]_vars

(***************************************************************************)
(* The coordinator.  Each caller r is one invocation of                    *)
(* _async_update_data at a time; pc[r] is where it stands:                 *)
(*   "idle"   not running (ret[r] is what its last run returned)           *)
(*   "login"  fetch_data is running in the executor, before the POST       *)
(*   "get"    fetch_data is running, login answered 200, before the GET    *)
(*   "ret"    fetch_data has returned html[r]; line 124 is next            *)
(* reqs[r] is the list of requests the current fetch_data has issued.      *)
(* lastGood is the body of the latest fetch that ended with 200 and 200.   *)
(***************************************************************************)
Callers == 1..NumCallers

Statuses == {HTTP_OK, 403}

\* What a request can do: answer with a status, or raise.
Responses ==
    {[raised |-> FALSE, status |-> s] : s \in Statuses}
        \cup {[raised |-> TRUE, status |-> 0]}

Unset == [kind |-> "unset", text |-> <<>>]

FetchNone == [kind |-> "None", text |-> <<>>]

FetchText(b) == [kind |-> "text", text |-> b]

FetchRaised == [kind |-> "raised", text |-> <<>>]

NoReturn == [kind |-> "none", value |-> EmptyDict]

\* `if html:` -- None and the empty string are both false.
Truthy(h) == h.kind = "text" /\ h.text # <<>>

Init ==
    /\ data = EmptyDict
    /\ pc = [r \in Callers |-> "idle"]
    /\ html = [r \in Callers |-> Unset]
    /\ reqs = [r \in Callers |-> <<>>]
    /\ ret = [r \in Callers |-> NoReturn]
    /\ lastGood = [kind |-> "none", text |-> <<>>]
    /\ doc = <<>>
    /\ reading = NoReading

\* _async_update_data is called and hands fetch_data to the executor.
Invoke(r) ==
    /\ pc[r] = "idle"
    /\ pc' = [pc EXCEPT ![r] = "login"]
    /\ html' = [html EXCEPT ![r] = Unset]
    /\ reqs' = [reqs EXCEPT ![r] = <<>>]
    /\ ret' = [ret EXCEPT ![r] = NoReturn]
    /\ UNCHANGED <<data, lastGood, parseVars>>

\* The handler lets the exception escape fetch_data.
except_Exception_Reraise(resp) == FetchRaised

\* Lines 82-84: log the error, return None.
except_Exception(resp) == FetchNone

\* Lines 67-69 without the status check: the GET follows any login answer.
login_result_NoCheck(resp) ==
    IF resp.raised
    THEN [pc |-> "ret", html |-> except_Exception(resp)]
    ELSE [pc |-> "get", html |-> Unset]

\* Lines 65-69: where fetch_data stands after the login POST answered.
login_result(resp) ==
    IF resp.raised
    THEN [pc |-> "ret", html |-> except_Exception(resp)]
    ELSE IF resp.status # HTTP_OK
         THEN [pc |-> "ret", html |-> FetchNone]
         ELSE [pc |-> "get", html |-> Unset]

\* Lines 72-80: what fetch_data returns after the account-page GET answered.
get_result(resp, body) ==
    IF resp.raised
    THEN except_Exception(resp)
    ELSE IF resp.status # HTTP_OK THEN FetchNone ELSE FetchText(body)

\* fetch_data, lines 60-69: the login POST.
Login(r) ==
    /\ pc[r] = "login"
    /\ \E resp \in Responses :
          /\ reqs' = [reqs EXCEPT ![r] = Append(@, [method |-> "POST", resp |-> resp])]
          /\ pc' = [pc EXCEPT ![r] = login_result(resp).pc]
          /\ html' = [html EXCEPT ![r] = login_result(resp).html]
    /\ UNCHANGED <<data, ret, lastGood, parseVars>>

\* fetch_data, lines 71-80: the account-page GET.
GetPage(r) ==
    /\ pc[r] = "get"
    /\ \E resp \in Responses, body \in Pages :
          /\ reqs' = [reqs EXCEPT ![r] = Append(@, [method |-> "GET", resp |-> resp])]
          /\ html' = [html EXCEPT ![r] = get_result(resp, body)]
    /\ pc' = [pc EXCEPT ![r] = "ret"]
    /\ UNCHANGED <<data, ret, lastGood, parseVars>>

\* Lines 124-126 with the cache reset when the fetch gave nothing.
update_data_Reset(d, h) == IF Truthy(h) THEN parse_data(h.text) ELSE EmptyDict

\* Lines 124-126: self.data after `if html: self.parse_data(html)`.
update_data(d, h) == IF Truthy(h) THEN parse_data(h.text) ELSE d

\* _async_update_data, lines 123-126, once the executor job is over: an
\* exception of the job is raised again by the await, otherwise the cache is
\* updated and returned.
Complete(r) ==
    /\ pc[r] = "ret"
    /\ IF html[r].kind = "raised"
       THEN /\ data' = data
            /\ ret' = [ret EXCEPT ![r] = [kind |-> "raised", value |-> EmptyDict]]
       ELSE /\ data' = update_data(data, html[r])
            /\ ret' = [ret EXCEPT ![r] = [kind |-> "reading", value |-> data']]
    /\ lastGood' = IF html[r].kind = "text"
                   THEN [kind |-> "text", text |-> html[r].text]
                   ELSE lastGood
    /\ pc' = [pc EXCEPT ![r] = "idle"]
    /\ html' = [html EXCEPT ![r] = Unset]
    /\ UNCHANGED <<reqs, parseVars>>

Next == \E r \in Callers : Invoke(r) \/ Login(r) \/ GetPage(r) \/ Complete(r)

Spec == Init /\ [][Next]_vars

(***************************************************************************)
(* The sensors: read-only projections of the coordinator's data.           *)
(***************************************************************************)
Sensors == {"balance", "data_usage", "remaining_data"}

\* The state property of each sensor class.
state(v) == Get(data, v)

\* The unit_of_measurement property of each sensor class.
unit_of_measurement(v) ==
    CASE v = "balance" -> <<"E", "U", "R">>
      [] v = "data_usage" -> Get(data, "data_usage_unit")
      [] v = "remaining_data" -> Get(data, "remaining_data_unit")
(***************************************************************************)
(* Properties.                                                             *)
(***************************************************************************)
Refused(q) == ~q.resp.raised /\ q.resp.status # HTTP_OK

Answered200(q) == ~q.resp.raised /\ q.resp.status = HTTP_OK

\* The fetch of caller r ended without a page: its last request was refused
\* or raised.
FetchFailed(r) ==
    /\ reqs[r] # <<>>
    /\ ~Answered200(reqs[r][Len(reqs[r])])

\* The fetch of caller r ended with 200 for the login and 200 for the page.
FetchSucceeded(r) ==
    /\ Len(reqs[r]) = 2
    /\ Answered200(reqs[r][1])
    /\ Answered200(reqs[r][2])

\* Caller r is at the end of _async_update_data in this step.
Returns(r) == pc[r] = "ret" /\ pc'[r] = "idle"

\* Two dicts that no sensor can tell apart.
SameReading(d, e) == \A k \in Keys : Get(d, k) = Get(e, k)

Text_12_34 == <<"1", "2", ",", "3", "4">>

\* C1: a refresh whose fetch failed (login refused, page refused, or an
\* exception in either request) leaves the cached Reading exactly as it was
\* and returns it, whatever refreshes came before.
C1_FailedRefreshKeepsCache ==
    [][\A r \in Callers :
          (Returns(r) /\ FetchFailed(r))
              => (data' = data /\ ret'[r] = [kind |-> "reading", value |-> data])]_vars

\* C1 witness: a failed refresh has returned a non-empty stale Reading.
C1_Witness ==
    \E r \in Callers :
        /\ pc[r] = "idle"
        /\ FetchFailed(r)
        /\ data # EmptyDict
        /\ ret[r] = [kind |-> "reading", value |-> data]

\* C2: at most one fetch+parse pipeline is in flight at any instant; a
\* refresh invoked while another is between the start of its fetch and its
\* cache write starts no second fetch_data.
C2_AtMostOnePipeline ==
    Cardinality({r \in Callers : pc[r] \in {"login", "get", "ret"}}) <= 1

\* C3: after a refresh whose fetch succeeded, for every body including the
\* empty one, the cache equals parse(body) in all five fields, whatever the
\* cache held before.
C3_SuccessReplacesCache ==
    [][\A r \in Callers :
          (Returns(r) /\ FetchSucceeded(r))
              => SameReading(data', parse_data(html[r].text))]_vars

\* C4: in every fetch the login POST comes first; the account-page GET is
\* issued only after the login POST of the same fetch answered 200, and a
\* refused login ends the fetch as a failure without a GET.
C4_LoginBeforeGet ==
    \A r \in Callers :
        /\ Len(reqs[r]) <= 2
        /\ reqs[r] # <<>> => reqs[r][1].method = "POST"
        /\ \A i \in DOMAIN reqs[r] :
              reqs[r][i].method = "GET" => (i = 2 /\ Answered200(reqs[r][1]))
        /\ (reqs[r] # <<>> /\ Refused(reqs[r][1])) =>
              /\ Len(reqs[r]) = 1
              /\ pc[r] \in {"ret", "idle"}
              /\ pc[r] = "ret" => html[r] = FetchNone

\* C4 witness: a fetch whose login was refused has ended, with one request.
C4_Witness ==
    \E r \in Callers :
        /\ pc[r] = "ret"
        /\ Len(reqs[r]) = 1
        /\ Refused(reqs[r][1])

C6_BalanceOfEuroFragment ==
    reading.parsed =>
        IF \E i \in DOMAIN doc : doc[i] = E_BalanceEuro
        THEN reading.value["balance"] = Text_12_34
        ELSE reading.value["balance"] = None

\* A 'red'-class span whose text matches the size pattern.
Qualifies(e) ==
    /\ e.tag = "span"
    /\ "red" \in Range(e.class)
    /\ SizeSearch(e.text) # NoMatch

\* C7: data_usage and data_usage_unit come from the first 'red' span, in
\* document order, whose text matches the size pattern (number with comma
\* turned into period, unit in its own case); later ones are ignored, and
\* "5 GB" followed by "10gb" gives "5" and "GB".
C7_FirstUsageWins ==
    reading.parsed =>
        LET q == {i \in DOMAIN doc : Qualifies(doc[i])}
            first == CHOOSE i \in q : \A j \in q : i <= j
        IN  /\ q = {} =>
                /\ reading.value["data_usage"] = None
                /\ reading.value["data_usage_unit"] = None
            /\ q # {} =>
                /\ reading.value["data_usage"] =
                      ReplaceComma(SizeSearch(doc[first].text).g1)
                /\ reading.value["data_usage_unit"] =
                      SizeSearch(doc[first].text).g2
            /\ doc = <<E_Usage5GB, E_Usage10gb>> =>
                /\ reading.value["data_usage"] = <<"5">>
                /\ reading.value["data_usage_unit"] = <<"G", "B">>

\* C7 witness: the body with "5 GB" then "10gb" has been parsed.
C7_Witness == reading.parsed /\ doc = <<E_Usage5GB, E_Usage10gb>>

WholeReading(h) ==
    [k \in Keys |->
        CASE k = "balance" -> ExtractBalance(h)
          [] k = "data_usage" -> ExtractUsage(h).g1
          [] k = "data_usage_unit" -> ExtractUsage(h).g2
          [] k = "remaining_data" -> ExtractRemaining(h)
          [] k = "remaining_data_unit" -> ExtractRemainingUnit(h)]

\* What the sensor v shows of a dict d: its state and its unit.
ViewOf(d, v) ==
    <<Get(d, v),
      CASE v = "balance" -> <<"E", "U", "R">>
        [] v = "data_usage" -> Get(d, "data_usage_unit")
        [] v = "remaining_data" -> Get(d, "remaining_data_unit")>>

\* C9: the cache changes only in the last step of a refresh, after its fetch
\* has returned, and then to the complete Reading of the fetched body: what a
\* sensor reads is the whole old Reading or the whole new one, never fields
\* of both; no step of fetch_data writes the cache.
C9_WholeReadingSingleWrite ==
    [][/\ data' # data =>
            \E r \in Callers :
                /\ Returns(r)
                /\ html[r].kind = "text"
                /\ data' = WholeReading(html[r].text)
       /\ \A v \in Sensors :
            \/ <<state(v)', unit_of_measurement(v)'>> = ViewOf(data, v)
            \/ \E r \in Callers :
                  /\ Returns(r)
                  /\ <<state(v)', unit_of_measurement(v)'>> =
                        ViewOf(WholeReading(html[r].text), v)]_vars

\* C9 witness: the cache holds the Reading one refresh wrote while another
\* refresh has fetched a body with a different Reading and not yet written.
C9_Witness ==
    \E r, q \in Callers :
        /\ pc[r] = "idle"
        /\ FetchSucceeded(r)
        /\ data # EmptyDict
        /\ ret[r] = [kind |-> "reading", value |-> data]
        /\ pc[q] = "ret"
        /\ Truthy(html[q])
        /\ WholeReading(html[q].text) # data

\* C10: in every state of the cache data_usage is absent exactly when
\* data_usage_unit is; a present unit is KB, MB, GB or TB in some letter
\* case and a present data_usage holds no comma.
C10_UsagePairWellFormed ==
    LET a == Get(data, "data_usage")
        u == Get(data, "data_usage_unit")
    IN  /\ a = None <=> u = None
        /\ u # None =>
              /\ Len(u) = 2
              /\ <<Upper(u[1]), Upper(u[2])>> \in
                    {<<"K", "B">>, <<"M", "B">>, <<"G", "B">>, <<"T", "B">>}
              /\ "," \notin Range(a)

\* C10 witness: the cache holds a usage whose text had a comma.
C10_Witness ==
    /\ Get(data, "data_usage") = <<"1", ".", "5">>
    /\ Get(data, "data_usage_unit") = <<"M", "B">>

====
